---- MODULE Spec2Model ----
(***************************************************************************)
(* Model of the map calibration / proximity engine of the camping-site    *)
(* guide: src/services/geo.ts (affine solver, projector, haversine),       *)
(* src/App.tsx (React state, event handlers, effects) and                  *)
(* src/components/SpotDetailModal.tsx (check-in gate).                     *)
(*                                                                         *)
(* Numbers.  A JavaScript number is modelled as an extended rational       *)
(* <<n, d>>: d > 0 is the rational n/d in lowest terms, <<1,0>> is         *)
(* +Infinity, <<-1,0>> is -Infinity and <<0,0>> is NaN.  Arithmetic        *)
(* follows IEEE-754 for the non-finite cases (x/0, 0/0, 0*Infinity, NaN    *)
(* propagation, comparisons with NaN are false); rounding of finite        *)
(* results is not modelled (finite arithmetic is exact), except for the    *)
(* haversine intermediate of antipodal points (OvershootLatitudes).        *)
(*                                                                         *)
(* Square roots.  Every quantity the code obtains from Math.sqrt (pixel    *)
(* distances, the haversine distance) and every quantity derived from one  *)
(* by multiplication or division of non-negative values is carried as its  *)
(* SQUARE (suffix Sq).  x < y on non-negative values is x^2 < y^2, so the  *)
(* comparisons of the code are kept exactly; thresholds are squared too.   *)
(*                                                                         *)
(* Geography.  Latitudes and longitudes are counted in grid units of       *)
(* 1e-4 degree around (0, 0), where the haversine distance is, to within   *)
(* 1e-9 relative, MetersPerGeoUnit * sqrt(dlat^2 + dlng^2).                *)
(*                                                                         *)
(* null.  A nullable value is a sequence of length 0 (null) or 1.          *)
(***************************************************************************)
EXTENDS Integers, Sequences, FiniteSets, TLC

VARIABLES
    adminUrl,           \* window.location.search carries mode=admin
    stored,             \* the persisted AppData (what fetchAppData yields)
    loading,            \* useState(true)
    data,               \* AppData | null
    mode,               \* AppMode
    selectedSpot,       \* Spot | null
    completedMissions,  \* Set<string>
    readSpeeches,       \* Set<string>
    userGeo,            \* Coord | null
    gpsAccuracy,        \* number | null
    userPixel,          \* PixelCoord | null
    geoError,           \* string | null
    nearestSpotDist,    \* number | null (carried as its square)
    newSpotPos,         \* PixelCoord | null
    savePending,        \* handleSaveSpot is suspended at its await
    pendPixel,          \* deps [userGeo, transform] changed since the effect last ran
    pendNearest,        \* deps [userGeo, userPixel, data, transform, readSpeeches] changed
    spoken,             \* log of window.speechSynthesis.speak calls of the auto-speech trigger
    lastEval            \* what the nearest-spot effect computed when it last ran

vars == <<adminUrl, stored, loading, data, mode, selectedSpot, completedMissions,
          readSpeeches, userGeo, gpsAccuracy, userPixel, geoError, nearestSpotDist,
          newSpotPos, savePending, pendPixel, pendNearest, spoken, lastEval>>

----------------------------------------------------------------------------
(* null and nullable values *)

Null == <<>>

Some(x) == <<x>>

Val(o) == o[1]

----------------------------------------------------------------------------
(* JavaScript numbers as extended rationals *)

AbsInt(n) == IF n < 0 THEN -n ELSE n

SgnInt(n) == IF n < 0 THEN -1 ELSE IF n > 0 THEN 1 ELSE 0

RECURSIVE GCD(_, _)
GCD(a, b) == IF b = 0 THEN a ELSE GCD(b, a % b)

Norm(n, d) ==
    IF d = 0 THEN <<SgnInt(n), 0>>
    ELSE LET g == GCD(AbsInt(n), AbsInt(d))
         IN  <<(SgnInt(d) * n) \div g, AbsInt(d) \div g>>

Num(n) == <<n, 1>>

NaN == <<0, 0>>

Infinity == <<1, 0>>

IsNaN(a) == a = NaN

IsFinite(a) == a[2] # 0

Neg(a) == <<-a[1], a[2]>>

Abs(a) == <<AbsInt(a[1]), a[2]>>

Add(a, b) ==
    IF IsNaN(a) \/ IsNaN(b) THEN NaN
    ELSE IF ~IsFinite(a) /\ ~IsFinite(b) THEN (IF a = b THEN a ELSE NaN)
    ELSE IF ~IsFinite(a) THEN a
    ELSE IF ~IsFinite(b) THEN b
    ELSE LET g == GCD(a[2], b[2])
         IN  Norm(a[1] * (b[2] \div g) + b[1] * (a[2] \div g), (a[2] \div g) * b[2])

Sub(a, b) == Add(a, Neg(b))

\* Common factors are cancelled before the products are formed.
Mul(a, b) ==
    IF ~IsFinite(a) \/ ~IsFinite(b) \/ a[1] = 0 \/ b[1] = 0
    THEN Norm(SgnInt(a[1]) * SgnInt(b[1]), a[2] * b[2])
    ELSE LET g1 == GCD(AbsInt(a[1]), b[2])
             g2 == GCD(AbsInt(b[1]), a[2])
         IN  Norm((a[1] \div g1) * (b[1] \div g2), (a[2] \div g2) * (b[2] \div g1))

\* 1/b: 1/0 is +Infinity (signed zeros are not modelled), 1/Infinity is 0.
Recip(b) == IF b[1] < 0 THEN <<-b[2], -b[1]>> ELSE <<b[2], b[1]>>

Div(a, b) == Mul(a, Recip(b))

\* n1/d1 < n2/d2 for d1, d2 > 0, by comparing integer parts and then the
\* reciprocals of the fractional parts (no cross product is formed).
RECURSIVE LtRat(_, _, _, _)
LtRat(n1, d1, n2, d2) ==
    LET q1 == n1 \div d1
        q2 == n2 \div d2
        r1 == n1 % d1
        r2 == n2 % d2
    IN  IF q1 # q2 THEN q1 < q2
        ELSE IF r2 = 0 THEN FALSE
        ELSE IF r1 = 0 THEN TRUE
        ELSE LtRat(d2, r2, d1, r1)

Lt(a, b) ==
    IF IsNaN(a) \/ IsNaN(b) THEN FALSE
    ELSE IF ~IsFinite(a) \/ ~IsFinite(b)
         THEN (IF IsFinite(a) THEN b[1] > 0
               ELSE IF IsFinite(b) THEN a[1] < 0
               ELSE a[1] < b[1])
    ELSE LtRat(a[1], a[2], b[1], b[2])

Sqr(a) == Mul(a, a)

----------------------------------------------------------------------------
(* src/services/geo.ts *)

\* 1e-9 (degrees squared) in squared grid units of 1e-4 degree: 1e-9 / 1e-8.
CollinearEps == <<1, 10>>

\* The determinant with the sign of its last difference slipped.
DetSignSlip(p1, p2, p3) ==
    Add(Add(Mul(p1.lat, Sub(p2.lng, p3.lng)),
            Mul(p2.lat, Sub(p3.lng, p1.lng))),
        Mul(p3.lat, Sub(p2.lng, p1.lng)))

\* The determinant of getAffineTransform.
Det(p1, p2, p3) ==
    Add(Add(Mul(p1.lat, Sub(p2.lng, p3.lng)),
            Mul(p2.lat, Sub(p3.lng, p1.lng))),
        Mul(p3.lat, Sub(p1.lng, p2.lng)))

\* The numerators of A (v = pixel_x) and D (v = pixel_y).
NumA(v1, v2, v3, p1, p2, p3) ==
    Add(Add(Mul(v1, Sub(p2.lng, p3.lng)),
            Mul(v2, Sub(p3.lng, p1.lng))),
        Mul(v3, Sub(p1.lng, p2.lng)))

\* The numerators of B and E with the latitude differences taken in the order
\* of A's longitude differences.
NumBLikeA(v1, v2, v3, p1, p2, p3) ==
    Add(Add(Mul(v1, Sub(p2.lat, p3.lat)),
            Mul(v2, Sub(p3.lat, p1.lat))),
        Mul(v3, Sub(p1.lat, p2.lat)))

\* The numerators of B and E.
NumB(v1, v2, v3, p1, p2, p3) ==
    Add(Add(Mul(v1, Sub(p3.lat, p2.lat)),
            Mul(v2, Sub(p1.lat, p3.lat))),
        Mul(v3, Sub(p2.lat, p1.lat)))

\* The numerators of C and F.
NumC(v1, v2, v3, p1, p2, p3) ==
    Add(Add(Mul(v1, Sub(Mul(p2.lat, p3.lng), Mul(p3.lat, p2.lng))),
            Mul(v2, Sub(Mul(p3.lat, p1.lng), Mul(p1.lat, p3.lng)))),
        Mul(v3, Sub(Mul(p1.lat, p2.lng), Mul(p2.lat, p1.lng))))

\* The last three points of the sequence.
LatestPoints(points) ==
    <<points[Len(points) - 2], points[Len(points) - 1], points[Len(points)]>>

\* Which points of the sequence the solver reads.
SolverPoints(points) == <<points[1], points[2], points[3]>>

\* Whether the solver gives up on a determinant.
IsDegenerate(det) == Lt(Abs(det), CollinearEps)

\* The solver past its length guard.
SolveThree(p1, p2, p3) ==
    LET det == Det(p1, p2, p3)
    IN  IF IsDegenerate(det) THEN Null
        ELSE Some([A |-> Div(NumA(p1.pixel_x, p2.pixel_x, p3.pixel_x, p1, p2, p3), det),
                   B |-> Div(NumB(p1.pixel_x, p2.pixel_x, p3.pixel_x, p1, p2, p3), det),
                   C |-> Div(NumC(p1.pixel_x, p2.pixel_x, p3.pixel_x, p1, p2, p3), det),
                   D |-> Div(NumA(p1.pixel_y, p2.pixel_y, p3.pixel_y, p1, p2, p3), det),
                   E |-> Div(NumB(p1.pixel_y, p2.pixel_y, p3.pixel_y, p1, p2, p3), det),
                   F |-> Div(NumC(p1.pixel_y, p2.pixel_y, p3.pixel_y, p1, p2, p3), det)])

\* The solver with its guard letting through every non-empty sequence; the
\* arithmetic on the fields of a missing point yields NaN.
getAffineTransformLooseGuard(points) ==
    IF Len(points) < 1 THEN Null
    ELSE IF Len(points) < 3
         THEN Some([A |-> NaN, B |-> NaN, C |-> NaN, D |-> NaN, E |-> NaN, F |-> NaN])
    ELSE SolveThree(points[1], points[2], points[3])

getAffineTransform(points) ==
    IF Len(points) < 3 THEN Null
    ELSE SolveThree(SolverPoints(points)[1], SolverPoints(points)[2], SolverPoints(points)[3])

latLngToPixel(lat, lng, transform) ==
    IF transform = Null THEN Null
    ELSE LET t == Val(transform)
         IN  Some([x |-> Add(Add(Mul(t.A, lat), Mul(t.B, lng)), t.C),
                   y |-> Add(Add(Mul(t.D, lat), Mul(t.E, lng)), t.F)])

\* R * PI/180 * 1e-4 = 11.119..., the length in metres of one grid unit.
MetersPerGeoUnit == 11

\* The haversine intermediate a, in units of (grid unit / 2)^2:
\* sin^2(dphi/2) + cos(phi1) cos(phi2) sin^2(dlambda/2) at the grid's scale.
HaversineA(c1, c2) ==
    Add(Sqr(Sub(c2.lat, c1.lat)), Sqr(Sub(c2.lng, c1.lng)))

\* 180 degrees of longitude in grid units.
HalfTurn == 1800000

\* The two positions are antipodes of each other.
Antipodal(c1, c2) ==
    /\ c2.lat = Neg(c1.lat)
    /\ Abs(Sub(c2.lng, c1.lng)) = Num(HalfTurn)

\* Latitudes (grid units: 8 and 12 degrees) of antipodal pairs for which
\* the IEEE-754 double evaluation of a rounds to 1 + 2^-52:
\* fl(sin^2) + fl(cos^2 * 1 * 1) with correctly rounded sin and cos.
OvershootLatitudes == {80000, 120000}

\* The double a exceeds 1, so that Math.sqrt(1 - a) is NaN; nothing in the
\* function bounds a before the square roots.
HaversineExceedsOne(c1, c2) ==
    Antipodal(c1, c2) /\ \E l \in OvershootLatitudes : Abs(c1.lat) = Num(l)

\* (R * c)^2 with c = 2 atan2(sqrt a, sqrt(1 - a)); atan2 of a NaN is NaN.
getDistanceMetersSq(c1, c2) ==
    IF HaversineExceedsOne(c1, c2) THEN NaN
    ELSE Mul(Num(MetersPerGeoUnit * MetersPerGeoUnit), HaversineA(c1, c2))

----------------------------------------------------------------------------
(* src/App.tsx: derived values of a render *)

AUTO_SPEECH_DISTANCE == 20

\* useMemo(..., [data]): the transform of a value of the data state.
TransformOf(d) ==
    IF d = Null \/ Len(Val(d).calibration_points) < 3 THEN Null
    ELSE getAffineTransform(Val(d).calibration_points)

transform == TransformOf(data)

\* Math.sqrt(dx*dx + dy*dy), squared.
PixelDistSq(ax, ay, bx, by) == Add(Sqr(Sub(ax, bx)), Sqr(Sub(ay, by)))

\* metersPerPixel falling back to a scale of 1 when the two calibration
\* points are zero pixels apart.
MetersPerPixelSqGuarded(points) ==
    LET p1 == points[1]
        p2 == points[2]
        distPixelsSq == PixelDistSq(p1.pixel_x, p1.pixel_y, p2.pixel_x, p2.pixel_y)
    IN  IF distPixelsSq = Num(0) THEN Num(1)
        ELSE Div(getDistanceMetersSq([lat |-> p1.lat, lng |-> p1.lng],
                                     [lat |-> p2.lat, lng |-> p2.lng]),
                 distPixelsSq)

\* metersPerPixel of the nearest-spot effect, squared: distMeters / distPixels
\* over the first two calibration points.
MetersPerPixelSq(points) ==
    LET p1 == points[1]
        p2 == points[2]
    IN  Div(getDistanceMetersSq([lat |-> p1.lat, lng |-> p1.lng],
                                [lat |-> p2.lat, lng |-> p2.lng]),
            PixelDistSq(p1.pixel_x, p1.pixel_y, p2.pixel_x, p2.pixel_y))

\* distM of the nearest-spot effect for one spot, squared.
SpotDistSq(pix, spot, points) ==
    Mul(PixelDistSq(pix.x, pix.y, spot.pixel_x, spot.pixel_y), MetersPerPixelSq(points))

\* A comparison that also lets an equally distant spot replace the nearest one.
CloserOrEqual(distM, minDist) == Lt(distM, minDist) \/ (IsFinite(distM) /\ distM = minDist)

\* The comparison that lets a spot replace the current nearest one.
Closer(distM, minDist) == Lt(distM, minDist)

\* One iteration of data.spots.forEach: acc is [minDist, closest].
VisitSpot(acc, spot, pix, tr, points) ==
    IF pix # Null /\ tr # Null /\ Len(points) >= 2
       /\ Closer(SpotDistSq(Val(pix), spot, points), acc.minDist)
    THEN [minDist |-> SpotDistSq(Val(pix), spot, points), closest |-> Some(spot)]
    ELSE acc

\* data.spots.forEach(...) over spots[i..], in insertion order.
RECURSIVE ForEachSpot(_, _, _, _, _, _)
ForEachSpot(acc, spots, i, pix, tr, points) ==
    IF i > Len(spots) THEN acc
    ELSE ForEachSpot(VisitSpot(acc, spots[i], pix, tr, points), spots, i + 1, pix, tr, points)

\* minDist and closest of the nearest-spot effect run with the given closure values.
NearestScan(d, pix, tr) ==
    ForEachSpot([minDist |-> Infinity, closest |-> Null],
                d.spots, 1, pix, tr, d.calibration_points)

\* The value handed to setNearestSpotDist.
NearestDistOf(scan) == IF scan.minDist = Infinity THEN Null ELSE Some(scan.minDist)

\* The auto-speech trigger without its look at readSpeeches.
ShouldSpeakUnremembered(scan, read) ==
    /\ scan.closest # Null
    /\ Lt(scan.minDist, Sqr(Num(AUTO_SPEECH_DISTANCE)))
    /\ Val(scan.closest).speech_text # ""

\* The auto-speech trigger without its look at the speech text.
ShouldSpeakWithoutText(scan, read) ==
    /\ scan.closest # Null
    /\ Lt(scan.minDist, Sqr(Num(AUTO_SPEECH_DISTANCE)))
    /\ Val(scan.closest).id \notin read

\* Whether the auto-speech trigger speaks for the scan's closest spot.
ShouldSpeak(scan, read) ==
    /\ scan.closest # Null
    /\ Lt(scan.minDist, Sqr(Num(AUTO_SPEECH_DISTANCE)))
    /\ Val(scan.closest).id \notin read
    /\ Val(scan.closest).speech_text # ""

\* A narrated set that keeps only the latest id.
RememberedOnlyLatest(read, id) == {id}

\* The updater handed to setReadSpeeches: new Set(prev).add(s.id).
Remembered(read, id) == read \cup {id}

\* JavaScript truthiness of a nullable number.
Truthy(n) == n # Null /\ Val(n) # Num(0) /\ ~IsNaN(Val(n))

\* The userDistance prop handed to SpotDetailModal (squared).
ModalUserDistance ==
    IF selectedSpot # Null /\ Truthy(nearestSpotDist) /\ userPixel # Null
    THEN Some(PixelDistSq(Val(selectedSpot).pixel_x, Val(selectedSpot).pixel_y,
                          Val(userPixel).x, Val(userPixel).y))
    ELSE Null

\* The isCompleted prop handed to SpotDetailModal.
ModalIsCompleted ==
    IF selectedSpot # Null THEN Val(selectedSpot).id \in completedMissions ELSE FALSE

----------------------------------------------------------------------------
(* src/components/SpotDetailModal.tsx *)

CHECKIN_DISTANCE == 30

\* A threshold test that includes the threshold itself.
isNearInclusive(userDistance) ==
    userDistance # Null /\ ~Lt(Sqr(Num(CHECKIN_DISTANCE)), Val(userDistance))
                        /\ ~IsNaN(Val(userDistance))

isNear(userDistance) ==
    userDistance # Null /\ Lt(Val(userDistance), Sqr(Num(CHECKIN_DISTANCE)))

\* The check-in button is rendered.
CheckInShown(spot, isCompleted) == spot # Null /\ Val(spot).has_mission /\ ~isCompleted

\* A check-in button that is never disabled.
CheckInEnabledAnywhere(spot, userDistance, isCompleted) == CheckInShown(spot, isCompleted)

\* The check-in button is rendered and not disabled.
CheckInEnabled(spot, userDistance, isCompleted) ==
    CheckInShown(spot, isCompleted) /\ isNear(userDistance)

----------------------------------------------------------------------------
(* src/App.tsx: the component's state machine *)

Quiescent == ~pendPixel /\ ~pendNearest

UnsupportedMsg == "geolocation unsupported"

\* The geolocation effect subscribed (navigator.geolocation exists).
Watching == geoError # Some(UnsupportedMsg)

\* Neither modal covers the screen, so the map and the buttons take clicks.
UiFree == ~loading /\ selectedSpot = Null /\ newSpotPos = Null

\* setData(newData) of handleDataSave, and saveAppData's localStorage write.
SetData(newData) ==
    /\ data' = Some(newData)
    /\ stored' = newData
    /\ pendNearest' = TRUE
    /\ pendPixel' = (TransformOf(data) # Null \/ TransformOf(Some(newData)) # Null)

\* init() of the initial-load effect resumes after fetchAppData.
Load ==
    /\ loading /\ Quiescent
    /\ loading' = FALSE
    /\ data' = Some(stored)
    /\ pendNearest' = TRUE
    /\ pendPixel' = (TransformOf(Some(stored)) # Null)
    /\ UNCHANGED <<adminUrl, stored, mode, selectedSpot, completedMissions, readSpeeches,
                   userGeo, gpsAccuracy, userPixel, geoError, nearestSpotDist, newSpotPos,
                   savePending, spoken, lastEval>>

handleSuccess(c, acc) ==
    /\ Watching /\ Quiescent
    /\ userGeo' = Some(c)
    /\ gpsAccuracy' = Some(acc)
    /\ geoError' = Null
    /\ pendPixel' = TRUE
    /\ pendNearest' = TRUE
    /\ UNCHANGED <<adminUrl, stored, loading, data, mode, selectedSpot, completedMissions,
                   readSpeeches, userPixel, nearestSpotDist, newSpotPos, savePending,
                   spoken, lastEval>>

\* The message handleError's switch picks for err.code.
ErrorMessage(code) ==
    CASE code = 1 -> "PERMISSION_DENIED"
      [] code = 2 -> "POSITION_UNAVAILABLE"
      [] code = 3 -> "TIMEOUT"
      [] OTHER -> "err.message"

\* An error handler that also forgets the last fix.
handleErrorForgetsFix(code) ==
    /\ Watching /\ Quiescent
    /\ geoError' = Some(ErrorMessage(code))
    /\ userGeo' = Null
    /\ pendPixel' = TRUE
    /\ pendNearest' = TRUE
    /\ UNCHANGED <<adminUrl, stored, loading, data, mode, selectedSpot, completedMissions,
                   readSpeeches, gpsAccuracy, userPixel, nearestSpotDist,
                   newSpotPos, savePending, spoken, lastEval>>

handleError(code) ==
    /\ Watching /\ Quiescent
    /\ geoError' = Some(ErrorMessage(code))
    /\ UNCHANGED <<adminUrl, stored, loading, data, mode, selectedSpot, completedMissions,
                   readSpeeches, userGeo, gpsAccuracy, userPixel, nearestSpotDist,
                   newSpotPos, savePending, pendPixel, pendNearest, spoken, lastEval>>

\* The effect with deps [userGeo, transform]: the value it hands to setUserPixel,
\* or the current one when it does not call it.
PixelEffect ==
    IF pendPixel /\ userGeo # Null /\ transform # Null
    THEN latLngToPixel(Val(userGeo).lat, Val(userGeo).lng, transform)
    ELSE userPixel

PixelEffectSets == pendPixel /\ userGeo # Null /\ transform # Null

\* The nearest-spot effect gets past its early return.
NearestEffectRuns == pendNearest /\ userGeo # Null /\ data # Null

\* One commit: React runs, in source order and with the values of the render
\* they belong to, the effects whose dependencies changed; the state they set
\* is seen by the next render.
CommitEffects ==
    /\ ~Quiescent
    /\ userPixel' = PixelEffect
    /\ LET scan == NearestScan(Val(data), userPixel, transform)
           speak == NearestEffectRuns /\ ShouldSpeak(scan, readSpeeches)
       IN  /\ nearestSpotDist' = IF NearestEffectRuns THEN NearestDistOf(scan)
                                 ELSE nearestSpotDist
           /\ lastEval' = IF NearestEffectRuns
                          THEN Some([pixel |-> userPixel, tr |-> transform,
                                     data |-> Val(data),
                                     minDist |-> scan.minDist,
                                     closest |-> scan.closest, spoke |-> speak])
                          ELSE lastEval
           /\ spoken' = IF speak THEN Append(spoken, Val(scan.closest).id) ELSE spoken
           /\ readSpeeches' = IF speak THEN Remembered(readSpeeches, Val(scan.closest).id)
                              ELSE readSpeeches
           /\ pendNearest' = (PixelEffectSets \/ speak)
    /\ pendPixel' = FALSE
    /\ UNCHANGED <<adminUrl, stored, loading, data, mode, selectedSpot, completedMissions,
                   userGeo, gpsAccuracy, geoError, newSpotPos, savePending>>

----------------------------------------------------------------------------
(* src/App.tsx: user-interface handlers *)

\* The calibration branch of handleMapClick: bind says the admin confirmed
\* binding to the GPS position, entry is what parseFloat made of the prompt.
CalibrationGeo(bind, entry) == IF userGeo # Null /\ bind THEN Val(userGeo) ELSE entry

NewCalibrationPoint(click, geo) ==
    [pixel_x |-> click.x, pixel_y |-> click.y, lat |-> geo.lat, lng |-> geo.lng]

\* The new point put in front of the existing ones.
AddedPointsInFront(points, newPoint) == <<newPoint>> \o points

\* updatedPoints of handleMapClick.
AddedPoints(points, newPoint) == Append(points, newPoint)

handleMapClick(click, bind, entry, maxCalib) ==
    /\ UiFree /\ Quiescent
    /\ IF mode = "ADMIN_CALIBRATE"
       THEN /\ Len(Val(data).calibration_points) < maxCalib
            /\ SetData([Val(data) EXCEPT !.calibration_points =
                   AddedPoints(@, NewCalibrationPoint(click, CalibrationGeo(bind, entry)))])
            /\ UNCHANGED newSpotPos
       ELSE IF mode = "ADMIN_ADD_SPOT"
       THEN /\ newSpotPos' = Some(click)
            /\ UNCHANGED <<data, stored, pendPixel, pendNearest>>
       ELSE UNCHANGED <<data, stored, pendPixel, pendNearest, newSpotPos>>
    /\ UNCHANGED <<adminUrl, loading, mode, selectedSpot, completedMissions, readSpeeches,
                   userGeo, gpsAccuracy, userPixel, geoError, nearestSpotDist,
                   savePending, spoken, lastEval>>

\* newSpot of handleSaveSpot; Date.now() is a fresh value.
NewSpot(pos, form, spots) ==
    [id |-> Len(spots) + 1, pixel_x |-> pos.x, pixel_y |-> pos.y,
     has_mission |-> form.has_mission, speech_text |-> form.speech_text]

\* handleSaveSpot up to its await.
handleSaveSpot(form, maxSpots) ==
    /\ ~loading /\ Quiescent
    /\ newSpotPos # Null
    /\ Len(Val(data).spots) < maxSpots
    /\ SetData([Val(data) EXCEPT !.spots =
                   Append(@, NewSpot(Val(newSpotPos), form, Val(data).spots))])
    /\ savePending' = TRUE
    /\ UNCHANGED <<adminUrl, loading, mode, selectedSpot, completedMissions, readSpeeches,
                   userGeo, gpsAccuracy, userPixel, geoError, nearestSpotDist, newSpotPos,
                   spoken, lastEval>>

\* handleSaveSpot after its await: setNewSpotPos(null).
FinishSaveSpot ==
    /\ savePending /\ Quiescent
    /\ savePending' = FALSE
    /\ newSpotPos' = Null
    /\ UNCHANGED <<adminUrl, stored, loading, data, mode, selectedSpot, completedMissions,
                   readSpeeches, userGeo, gpsAccuracy, userPixel, geoError,
                   nearestSpotDist, pendPixel, pendNearest, spoken, lastEval>>

\* onClose of AdminSpotModal.
CloseAdminModal ==
    /\ ~loading /\ Quiescent
    /\ newSpotPos # Null
    /\ newSpotPos' = Null
    /\ UNCHANGED <<adminUrl, stored, loading, data, mode, selectedSpot, completedMissions,
                   readSpeeches, userGeo, gpsAccuracy, userPixel, geoError,
                   nearestSpotDist, savePending, pendPixel, pendNearest, spoken, lastEval>>

\* The clear button of the mode switchers, confirmed.
ClearCalibration ==
    /\ UiFree /\ Quiescent
    /\ mode # "USER"
    /\ SetData([Val(data) EXCEPT !.calibration_points = <<>>])
    /\ UNCHANGED <<adminUrl, loading, mode, selectedSpot, completedMissions, readSpeeches,
                   userGeo, gpsAccuracy, userPixel, geoError, nearestSpotDist, newSpotPos,
                   savePending, spoken, lastEval>>

\* The two mode buttons shown while mode is not USER.
SetMode(m) ==
    /\ UiFree /\ Quiescent
    /\ mode # "USER"
    /\ mode' = m
    /\ UNCHANGED <<adminUrl, stored, loading, data, selectedSpot, completedMissions,
                   readSpeeches, userGeo, gpsAccuracy, userPixel, geoError,
                   nearestSpotDist, newSpotPos, savePending, pendPixel, pendNearest,
                   spoken, lastEval>>

\* An admin toggle that is rendered whatever the URL.
ToggleAdminAnyUrl ==
    /\ UiFree /\ Quiescent
    /\ mode' = IF mode = "USER" THEN "ADMIN_CALIBRATE" ELSE "USER"
    /\ UNCHANGED <<adminUrl, stored, loading, data, selectedSpot, completedMissions,
                   readSpeeches, userGeo, gpsAccuracy, userPixel, geoError,
                   nearestSpotDist, newSpotPos, savePending, pendPixel, pendNearest,
                   spoken, lastEval>>

\* The admin toggle, rendered only when the URL carries mode=admin.
ToggleAdmin ==
    /\ UiFree /\ Quiescent
    /\ adminUrl
    /\ mode' = IF mode = "USER" THEN "ADMIN_CALIBRATE" ELSE "USER"
    /\ UNCHANGED <<adminUrl, stored, loading, data, selectedSpot, completedMissions,
                   readSpeeches, userGeo, gpsAccuracy, userPixel, geoError,
                   nearestSpotDist, newSpotPos, savePending, pendPixel, pendNearest,
                   spoken, lastEval>>

\* onClick of the i-th MapMarker: setSelectedSpot(spot).
SelectSpot(i) ==
    /\ UiFree /\ Quiescent
    /\ i \in 1..Len(Val(data).spots)
    /\ selectedSpot' = Some(Val(data).spots[i])
    /\ UNCHANGED <<adminUrl, stored, loading, data, mode, completedMissions, readSpeeches,
                   userGeo, gpsAccuracy, userPixel, geoError, nearestSpotDist, newSpotPos,
                   savePending, pendPixel, pendNearest, spoken, lastEval>>

\* onClose of SpotDetailModal.
CloseDetail ==
    /\ ~loading /\ Quiescent
    /\ selectedSpot # Null
    /\ selectedSpot' = Null
    /\ UNCHANGED <<adminUrl, stored, loading, data, mode, completedMissions, readSpeeches,
                   userGeo, gpsAccuracy, userPixel, geoError, nearestSpotDist, newSpotPos,
                   savePending, pendPixel, pendNearest, spoken, lastEval>>

\* A click on the enabled check-in button: onCheckIn.
CheckIn ==
    /\ ~loading /\ Quiescent
    /\ CheckInEnabled(selectedSpot, ModalUserDistance, ModalIsCompleted)
    /\ completedMissions' = completedMissions \cup {Val(selectedSpot).id}
    /\ selectedSpot' = Null
    /\ UNCHANGED <<adminUrl, stored, loading, data, mode, readSpeeches, userGeo,
                   gpsAccuracy, userPixel, geoError, nearestSpotDist, newSpotPos,
                   savePending, pendPixel, pendNearest, spoken, lastEval>>

----------------------------------------------------------------------------
(* Inputs and specifications *)

Px(x, y) == [x |-> Num(x), y |-> Num(y)]

Geo(lat, lng) == [lat |-> Num(lat), lng |-> Num(lng)]

EmptyData == [calibration_points |-> <<>>, spots |-> <<>>]

\* The state after the mount effects, for a given URL and persisted data.
InitWith(admin, persisted, supported) ==
    /\ adminUrl = admin
    /\ stored = persisted
    /\ loading = TRUE
    /\ data = Null
    /\ mode = IF admin THEN "ADMIN_CALIBRATE" ELSE "USER"
    /\ selectedSpot = Null
    /\ completedMissions = {}
    /\ readSpeeches = {}
    /\ userGeo = Null
    /\ gpsAccuracy = Null
    /\ userPixel = Null
    /\ geoError = IF supported THEN Null ELSE Some(UnsupportedMsg)
    /\ nearestSpotDist = Null
    /\ newSpotPos = Null
    /\ savePending = FALSE
    /\ pendPixel = FALSE
    /\ pendNearest = FALSE
    /\ spoken = <<>>
    /\ lastEval = Null

\* How many points the solver needs and reads.
SolverArity == 3

GpsAccuracy == 5

--------------------------------------------------------------------------
(* Spec: a calibration session.  The administrator (URL with mode=admin,
   mode ADMIN_CALIBRATE) adds calibration points and clears them while GPS
   fixes arrive; the points of interest are the persisted ones. *)

MaxCalib == 4

GeoFixes == {Geo(0, 0), Geo(2, 0), Geo(0, 1)}

ManualEntries == {Geo(0, 1)}

ClickPixels == {Px(0, 0), Px(11, 0)}

SessionSpots ==
    <<[id |-> 1, pixel_x |-> Num(0), pixel_y |-> Num(0),
       has_mission |-> TRUE, speech_text |-> "welcome"],
      [id |-> 2, pixel_x |-> Num(11), pixel_y |-> Num(0),
       has_mission |-> FALSE, speech_text |-> ""]>>

Init == InitWith(TRUE, [calibration_points |-> <<>>, spots |-> SessionSpots], TRUE)

Next ==
    \/ Load
    \/ \E c \in GeoFixes : handleSuccess(c, GpsAccuracy)
    \/ CommitEffects
    \/ \E click \in ClickPixels, bind \in BOOLEAN, entry \in ManualEntries :
          handleMapClick(click, bind, entry, MaxCalib)
    \/ ClearCalibration

Spec == Init /\ [][Next]_vars

--------------------------------------------------------------------------
(* SpecSolve: the solver and the projector on every sequence of up to
   SolverArity calibration points of a grid, as the persisted data. *)

MaxLat == 1

\* A sixteenth of a grid unit (0.7 m): with a point that close to another the
\* determinant is below the solver's threshold without the three being collinear.
Sixteenth == <<1, 16>>

SolveLats == {Num(k) : k \in 0..MaxLat} \cup {Sixteenth}

SolveLngs == {Num(0), Num(1)}

SolveGeos == {[lat |-> lat, lng |-> lng] : lat \in SolveLats, lng \in SolveLngs}

SolvePixels == {Px(0, 0), Px(11, 0), Px(5, 30)}

SolvePoints == {NewCalibrationPoint(px, g) : px \in SolvePixels, g \in SolveGeos}

SolveFixes == {Geo(1, 0)}

InitSolve ==
    \E n \in 0..SolverArity : \E pts \in [1..n -> SolvePoints] :
        InitWith(FALSE, [calibration_points |-> pts, spots |-> <<>>], TRUE)

NextSolve ==
    \/ Load
    \/ \E c \in SolveFixes : handleSuccess(c, GpsAccuracy)
    \/ CommitEffects

SpecSolve == InitSolve /\ [][NextSolve]_vars

--------------------------------------------------------------------------
(* SpecVisitor: a visitor's session (no mode=admin in the URL) over
   persisted data sets. *)

Spot(id, x, y, mission, speech) ==
    [id |-> id, pixel_x |-> x, pixel_y |-> y, has_mission |-> mission, speech_text |-> speech]

Calib(x, y, lat, lng) ==
    [pixel_x |-> x, pixel_y |-> y, lat |-> Num(lat), lng |-> Num(lng)]

\* 11 pixels per grid unit (1 metre per pixel); spots at 10, 5, 5 pixels from (0, 0).
DataTie ==
    [calibration_points |-> <<Calib(Num(0), Num(0), 0, 0), Calib(Num(11), Num(0), 1, 0),
                              Calib(Num(0), Num(11), 0, 1)>>,
     spots |-> <<Spot(1, Num(10), Num(0), FALSE, "a"), Spot(2, Num(0), Num(5), TRUE, "b"),
                 Spot(3, Num(5), Num(0), TRUE, "")>>]

\* x pixels per grid unit of latitude, 30 per unit of longitude; a mission spot at (0, 0).
DataScaled(x) ==
    [calibration_points |-> <<Calib(Num(0), Num(0), 0, 0), Calib(x, Num(0), 1, 0),
                              Calib(Num(0), Num(30), 0, 1)>>,
     spots |-> <<Spot(1, Num(0), Num(0), TRUE, "a")>>]

\* The first two calibration points on one pixel.
DataSamePixel ==
    [calibration_points |-> <<Calib(Num(0), Num(0), 0, 0), Calib(Num(0), Num(0), 1, 0),
                              Calib(Num(11), Num(0), 0, 1)>>,
     spots |-> <<Spot(1, Num(0), Num(0), TRUE, "a"), Spot(2, Num(11), Num(0), FALSE, "b")>>]

\* Two calibration points only.
DataUncalibrated ==
    [calibration_points |-> <<Calib(Num(0), Num(0), 0, 0), Calib(Num(11), Num(0), 1, 0)>>,
     spots |-> <<Spot(1, Num(0), Num(0), TRUE, "a")>>]

\* Two calibration points on opposite sides of the globe: (8, 0) and
\* (-8, 180) in degrees.
DataAntipodal ==
    [calibration_points |-> <<Calib(Num(0), Num(0), 80000, 0),
                              Calib(Num(11), Num(0), -80000, HalfTurn)>>,
     spots |-> <<Spot(1, Num(0), Num(0), TRUE, "a")>>]

VisitorData ==
    {DataTie, DataScaled(Num(30)), DataScaled(<<2999, 100>>), DataSamePixel, DataUncalibrated,
     DataAntipodal}

VisitorFixes == {Geo(0, 0), Geo(1, 0), Geo(0, 1), Geo(3, 0)}

ErrorCodes == {0, 1, 2, 3}

MaxMarkers == 3

InitVisitor ==
    \E persisted \in VisitorData, supported \in BOOLEAN : InitWith(FALSE, persisted, supported)

NextVisitor ==
    \/ Load
    \/ \E c \in VisitorFixes : handleSuccess(c, GpsAccuracy)
    \/ \E code \in ErrorCodes : handleError(code)
    \/ CommitEffects
    \/ \E i \in 1..MaxMarkers : SelectSpot(i)
    \/ CloseDetail
    \/ CheckIn

SpecVisitor == InitVisitor /\ [][NextVisitor]_vars

----------------------------------------------------------------------------
(* The administrator's session: every handler of the app, with manual
   entries that parseFloat cannot read *)

MaxAdminCalib == 3

MaxSpots == 2

\* What parseFloat makes of the prompt's text: "abc", "0" (no second
\* component) and "0,1".
AdminEntries == {[lat |-> NaN, lng |-> NaN], [lat |-> Num(0), lng |-> NaN], Geo(0, 1)}

AdminFixes == {Geo(1, 0)}

AdminErrorCodes == {3}

AdminClicks == {Px(11, 0)}

\* What AdminSpotModal's handleSubmit hands to onSave.
SpotForms == {[has_mission |-> TRUE, speech_text |-> "new"]}

AdminStored ==
    [calibration_points |-> <<Calib(Num(0), Num(0), 0, 0), Calib(Num(11), Num(0), 1, 0)>>,
     spots |-> <<Spot(1, Num(0), Num(0), TRUE, "a")>>]

InitAdmin == \E admin \in BOOLEAN : InitWith(admin, AdminStored, TRUE)

NextAdmin ==
    \/ Load
    \/ \E c \in AdminFixes : handleSuccess(c, GpsAccuracy)
    \/ \E code \in AdminErrorCodes : handleError(code)
    \/ CommitEffects
    \/ \E click \in AdminClicks, bind \in BOOLEAN, entry \in AdminEntries :
          handleMapClick(click, bind, entry, MaxAdminCalib)
    \/ \E form \in SpotForms : handleSaveSpot(form, MaxSpots)
    \/ FinishSaveSpot
    \/ CloseAdminModal
    \/ ClearCalibration
    \/ \E m \in {"ADMIN_CALIBRATE", "ADMIN_ADD_SPOT"} : SetMode(m)
    \/ ToggleAdmin
    \/ \E i \in 1..MaxSpots : SelectSpot(i)
    \/ CloseDetail
    \/ CheckIn

SpecAdmin == InitAdmin /\ [][NextAdmin]_vars

--------------------------------------------------------------------------
(* Properties *)

\* The calibration points of the loaded data.
Points == Val(data).calibration_points

\* Twice the signed area of the triangle of three geographic positions:
\* zero exactly when they are collinear.
Cross(p1, p2, p3) ==
    Sub(Mul(Sub(p2.lat, p1.lat), Sub(p3.lng, p1.lng)),
        Mul(Sub(p3.lat, p1.lat), Sub(p2.lng, p1.lng)))

PixelOf(p) == Some([x |-> p.pixel_x, y |-> p.pixel_y])

\* The three projections of the calibration points' own positions reproduce
\* their pixels, and so does the visitor's position when it is one of them.
RoundTrip ==
    /\ \A i \in 1..3 :
          latLngToPixel(Points[i].lat, Points[i].lng, getAffineTransform(Points))
             = PixelOf(Points[i])
    /\ \A i \in 1..3 :
          (Quiescent /\ userGeo = Some([lat |-> Points[i].lat, lng |-> Points[i].lng]))
             => userPixel = PixelOf(Points[i])

\* C1 as stated: for any 3 calibration points whose geographic positions are
\* not collinear, projecting each point's latitude/longitude with the solved
\* transform yields that point's own pixel.
C1_RoundTripNonCollinear ==
    (data # Null /\ Len(Points) >= 3 /\ Cross(Points[1], Points[2], Points[3]) # Num(0))
       => RoundTrip

\* C1 amended: the round trip holds for any 3 calibration points whose
\* determinant is at least 1e-9 in absolute value.
C1_RoundTrip ==
    (data # Null /\ Len(Points) >= 3
       /\ ~Lt(Abs(Cross(Points[1], Points[2], Points[3])), CollinearEps))
       => RoundTrip

\* Three points with three different pixels are solved and the visitor stands
\* on the second one, projected onto its pixel.
C1_Witness ==
    /\ data # Null /\ Len(Points) >= 3 /\ Quiescent
    /\ ~Lt(Abs(Cross(Points[1], Points[2], Points[3])), CollinearEps)
    /\ Cardinality({PixelOf(Points[i]) : i \in 1..3}) = 3
    /\ userGeo = Some([lat |-> Points[2].lat, lng |-> Points[2].lng])
    /\ userPixel = PixelOf(Points[2])

\* C3: the solver returns null whenever the first 3 points are collinear in
\* geographic space (determinant zero or below 1e-9 in absolute value), as
\* when all three share a latitude or two of them share a position.
C3_CollinearIsNull ==
    (data # Null /\ Len(Points) >= 3) =>
       LET p1 == Points[1]
           p2 == Points[2]
           p3 == Points[3]
           same(p, q) == p.lat = q.lat /\ p.lng = q.lng
       IN  (\/ Lt(Abs(Cross(p1, p2, p3)), CollinearEps)
            \/ (p1.lat = p2.lat /\ p2.lat = p3.lat)
            \/ same(p1, p2) \/ same(p2, p3) \/ same(p1, p3))
              => (getAffineTransform(Points) = Null /\ transform = Null)

\* Three different positions on one line are loaded and a fix has been
\* processed: there is no transform and no projected position.
C3_Witness ==
    /\ data # Null /\ Len(Points) >= 3 /\ Quiescent
    /\ Cross(Points[1], Points[2], Points[3]) = Num(0)
    /\ Cardinality({<<Points[i].lat, Points[i].lng>> : i \in 1..3}) = 3
    /\ userGeo # Null
    /\ transform = Null /\ userPixel = Null

----------------------------------------------------------------------------
(* Properties of the calibration session *)

\* C2: with fewer than 3 calibration points the solver returns null, and
\* the app's transform is null for fewer than 3 points and for absent data.
C2_FewerThanThreeIsNull ==
    /\ data = Null => transform = Null
    /\ (data # Null /\ Len(Points) < 3) =>
          (getAffineTransform(Points) = Null /\ transform = Null)

\* Two points are recorded and a fix has been processed: no transform, and
\* nothing was projected.
C2_Witness ==
    /\ data # Null /\ Len(Points) = 2 /\ Quiescent
    /\ userGeo # Null
    /\ transform = Null /\ userPixel = Null

\* C4: with 3 or more points stored the transform is that of the first 3 in
\* insertion order, and a click that appends a 4th or later point leaves the
\* transform, and so the projection of the visitor's position, unchanged.
C4_ExtraPointsIgnored ==
    /\ []((data # Null /\ Len(Points) >= 3)
             => transform = getAffineTransform(SubSeq(Points, 1, 3)))
    /\ [][(/\ data # Null /\ data' # Null
        /\ Len(Val(data).calibration_points) >= 3
        /\ Len(Val(data').calibration_points) > Len(Val(data).calibration_points)
        /\ SubSeq(Val(data').calibration_points, 1, Len(Val(data).calibration_points))
              = Val(data).calibration_points)
       => /\ TransformOf(data') = TransformOf(data)
          /\ userGeo # Null =>
                latLngToPixel(Val(userGeo).lat, Val(userGeo).lng, TransformOf(data'))
                  = latLngToPixel(Val(userGeo).lat, Val(userGeo).lng, TransformOf(data))]_vars

\* A 4th point is recorded whose last three points alone would give another
\* answer; the transform is that of the first three and the visitor is projected.
C4_Witness ==
    /\ data # Null /\ Len(Points) = 4 /\ Quiescent
    /\ transform # Null
    /\ transform = getAffineTransform(SubSeq(Points, 1, 3))
    /\ getAffineTransform(SubSeq(Points, 2, 4)) # transform
    /\ userGeo # Null
    /\ userPixel = latLngToPixel(Val(userGeo).lat, Val(userGeo).lng, transform)

\* C5: the auto-speech trigger speaks for each spot at most once in a
\* session, and every spot it spoke for is remembered in readSpeeches.
C5_NarratedOnce ==
    /\ \A i, j \in 1..Len(spoken) : spoken[i] = spoken[j] => i = j
    /\ \A i \in 1..Len(spoken) : spoken[i] \in readSpeeches

\* The visitor is again evaluated within range of a spot that has a speech
\* text and was narrated before: the trigger stays silent.
C5_Witness ==
    /\ Quiescent /\ lastEval # Null
    /\ Val(lastEval).closest # Null
    /\ Lt(Val(lastEval).minDist, Sqr(Num(AUTO_SPEECH_DISTANCE)))
    /\ Val(Val(lastEval).closest).speech_text # ""
    /\ \E i \in 1..Len(spoken) : spoken[i] = Val(Val(lastEval).closest).id
    /\ ~Val(lastEval).spoke
    /\ Len(spoken) = 1

\* The first two calibration points of a sequence sit on one pixel.
SamePixel(points) ==
    /\ Len(points) >= 2
    /\ points[1].pixel_x = points[2].pixel_x
    /\ points[1].pixel_y = points[2].pixel_y

\* C9: whenever the nearest-spot effect runs while the first two calibration
\* points share a pixel, it selects no spot, sets the nearest distance to
\* null and narrates nothing.
C9_SamePixelNoNearest ==
    [][(NearestEffectRuns /\ SamePixel(Val(data).calibration_points))
       => /\ nearestSpotDist' = Null
          /\ Val(lastEval').closest = Null
          /\ Val(lastEval').minDist = Infinity
          /\ ~Val(lastEval').spoke
          /\ spoken' = spoken
          /\ readSpeeches' = readSpeeches]_vars

\* The effect ran with a transform, a projected position and spots on the
\* map while the first two calibration points shared a pixel.
C9_Witness ==
    /\ Quiescent /\ lastEval # Null /\ data # Null
    /\ Val(lastEval).tr # Null /\ Val(lastEval).pixel # Null
    /\ SamePixel(Val(lastEval).data.calibration_points)
    /\ Len(Val(lastEval).data.spots) > 0
    /\ Val(lastEval).closest = Null
    /\ nearestSpotDist = Null

\* C10: while the transform is null, through too few or collinear points or
\* after clearing the calibration, the projected position and the nearest
\* distance are both null.
C10_NoTransformNoPosition ==
    (Quiescent /\ data # Null /\ transform = Null)
       => (userPixel = Null /\ nearestSpotDist = Null)

----------------------------------------------------------------------------
(* Properties of the visitor session *)

\* The distance of the i-th spot in the effect's last run.
EvalDist(i) ==
    SpotDistSq(Val(Val(lastEval).pixel), Val(lastEval).data.spots[i],
               Val(lastEval).data.calibration_points)

\* C6: the nearest-spot effect selects the first spot in insertion order
\* that attains the minimum distance (a later spot replaces the current
\* nearest only when strictly closer); for spots at 10, 5 and 5 metres with
\* a scale of 1 it selects the second.
C6_FirstMinimum ==
    (lastEval # Null /\ Val(lastEval).pixel # Null /\ Val(lastEval).tr # Null
       /\ Len(Val(lastEval).data.calibration_points) >= 2)
    => LET spots == Val(lastEval).data.spots
           closest == Val(lastEval).closest
       IN  /\ closest = Null => \A i \in 1..Len(spots) : ~Lt(EvalDist(i), Infinity)
           /\ closest # Null =>
                \E k \in 1..Len(spots) :
                   /\ spots[k] = Val(closest)
                   /\ Val(lastEval).minDist = EvalDist(k)
                   /\ \A i \in 1..Len(spots) : ~Lt(EvalDist(i), EvalDist(k))
                   /\ \A i \in 1..(k - 1) : EvalDist(i) # EvalDist(k)
           /\ (Len(spots) = 3 /\ EvalDist(1) = Sqr(Num(10)) /\ EvalDist(2) = Sqr(Num(5))
                 /\ EvalDist(3) = Sqr(Num(5)))
                => closest = Some(spots[2])

\* The effect ran over spots at 10, 5 and 5 metres and selected the second.
C6_Witness ==
    /\ Quiescent /\ lastEval # Null /\ Val(lastEval).pixel # Null
    /\ Val(lastEval).tr # Null
    /\ Len(Val(lastEval).data.spots) = 3
    /\ MetersPerPixelSq(Val(lastEval).data.calibration_points) = Num(1)
    /\ EvalDist(1) = Sqr(Num(10)) /\ EvalDist(2) = Sqr(Num(5)) /\ EvalDist(3) = Sqr(Num(5))
    /\ Val(Val(lastEval).closest).id = 2
    /\ nearestSpotDist = Some(Sqr(Num(5)))

\* The selected spot carries a mission that is not completed yet.
OpenMission ==
    selectedSpot # Null /\ Val(selectedSpot).has_mission
       /\ Val(selectedSpot).id \notin completedMissions

\* C7: the detail view enables the check-in button of a mission-bearing,
\* not-yet-completed spot exactly when the distance it is given is non-null
\* and strictly below 30; exactly 30 is ineligible and 29.99 is eligible; a
\* check-in happens only through the enabled button.
C7_StrictThreshold ==
    /\ []((selectedSpot # Null /\ ~loading /\ Quiescent)
            => LET d == ModalUserDistance
                   enabled == CheckInEnabled(selectedSpot, d, ModalIsCompleted)
               IN  /\ enabled <=> (OpenMission /\ d # Null /\ Lt(Val(d), Sqr(Num(30))))
                   /\ d = Some(Sqr(Num(30))) => ~enabled
                   /\ (OpenMission /\ d = Some(Sqr(<<2999, 100>>))) => enabled)
    /\ [][completedMissions' # completedMissions
            => /\ OpenMission
               /\ ModalUserDistance # Null
               /\ Lt(Val(ModalUserDistance), Sqr(Num(30)))
               /\ completedMissions' = completedMissions \cup {Val(selectedSpot).id}]_vars

\* The detail view of an open mission is given a distance of exactly 30 and
\* its check-in button is shown but disabled.
C7_Witness ==
    /\ ~loading /\ Quiescent
    /\ OpenMission
    /\ ModalUserDistance = Some(Sqr(Num(30)))
    /\ CheckInShown(selectedSpot, ModalIsCompleted)
    /\ ~CheckInEnabled(selectedSpot, ModalUserDistance, ModalIsCompleted)

\* C8: the distance handed to the detail view for the selected spot is the
\* one the nearest-spot effect computes for it: the pixel distance between
\* the visitor and the spot times the metres-per-pixel scale of the first
\* two calibration points.
C8_ModalDistanceScaled ==
    (Quiescent /\ data # Null /\ selectedSpot # Null /\ userPixel # Null
       /\ ModalUserDistance # Null)
    => ModalUserDistance = Some(SpotDistSq(Val(userPixel), Val(selectedSpot), Points))

\* C11: a position-source failure sets only the error status: the step that
\* raises an error leaves the last fix, its accuracy and the projected
\* position (and everything else) unchanged, and the next successful fix
\* clears the error status.
C11_ErrorKeepsPosition ==
    /\ [][(geoError' # Null /\ geoError' # geoError)
            => /\ userGeo' = userGeo
               /\ gpsAccuracy' = gpsAccuracy
               /\ userPixel' = userPixel
               /\ nearestSpotDist' = nearestSpotDist
               /\ UNCHANGED <<data, stored, loading, mode, selectedSpot, completedMissions,
                              readSpeeches, pendPixel, pendNearest, spoken>>]_vars
    /\ [][(~loading /\ Quiescent /\ pendPixel') => (userGeo' # Null /\ geoError' = Null)]_vars

\* A failure was reported after a fix had been projected: the error status
\* is set and the fix, its accuracy and the projected position are still there.
C11_Witness ==
    /\ Quiescent
    /\ geoError # Null /\ geoError # Some(UnsupportedMsg)
    /\ userGeo # Null /\ gpsAccuracy # Null /\ userPixel # Null

----------------------------------------------------------------------------
(* Properties of the administrator's session *)

\* C12: the narrated set only grows: in every step, whether a position
\* update, a calibration change, a spot addition or a check-in, the set
\* after the step contains the set before it.
C12_NarratedMonotonic ==
    [][readSpeeches \subseteq readSpeeches']_vars

\* A spot was narrated, and afterwards a spot was added, a mission was
\* checked in and the calibration was cleared: the narrated id is still there.
C12_Witness ==
    /\ Quiescent /\ data # Null
    /\ Len(spoken) >= 1
    /\ \A i \in 1..Len(spoken) : spoken[i] \in readSpeeches
    /\ Len(Val(data).spots) = MaxSpots
    /\ completedMissions # {}
    /\ Val(data).calibration_points = <<>>

\* A calibration sequence is left alone, extended by one point at its end,
\* or emptied.
AppendOrClear(old, new) ==
    \/ new = old
    \/ (Len(new) = Len(old) + 1 /\ SubSeq(new, 1, Len(old)) = old)
    \/ new = <<>>

\* C13: every step leaves the calibration set unchanged, appends exactly one
\* point after the existing ones, or replaces it with the empty set; this
\* holds for the set in the app's state and for the persisted one, and the
\* load shows the persisted set as it is.
C13_AppendOrClear ==
    [][/\ AppendOrClear(stored.calibration_points, stored'.calibration_points)
       /\ (data # Null /\ data' # Null)
             => AppendOrClear(Val(data).calibration_points, Val(data').calibration_points)
       /\ (data = Null /\ data' # Null) => Val(data') = stored]_vars

\* The set was cleared and a point appended again, and a spot was saved in
\* between or after.
C13_Witness ==
    /\ Quiescent /\ data # Null
    /\ Len(Val(data).calibration_points) = 1
    /\ stored = Val(data)
    /\ Len(Val(data).spots) = MaxSpots

----------------------------------------------------------------------------
(* Properties of the distance function *)

\* C14: getDistanceMeters keeps the haversine intermediate a within [0, 1]
\* before its square roots, so for coincident or antipodal points (here the
\* first two calibration points of the loaded data) it takes no square root
\* of a negative number and does not return NaN.
C14_HaversineClamped ==
    (data # Null /\ Len(Points) >= 2)
    => LET c1 == [lat |-> Points[1].lat, lng |-> Points[1].lng]
           c2 == [lat |-> Points[2].lat, lng |-> Points[2].lng]
       IN  (c1 = c2 \/ Antipodal(c1, c2))
              => /\ ~HaversineExceedsOne(c1, c2)
                 /\ ~IsNaN(getDistanceMetersSq(c1, c2))

----------------------------------------------------------------------------
(* Properties of the narration trigger *)

\* C15: the trigger speaks for a spot only in an evaluation that selected
\* that spot as nearest, at a computed distance strictly below 20 metres,
\* with a non-empty speech text and an id not yet in the narrated set; the
\* narrated set changes only by adding the id just spoken, and a nearest
\* spot without speech text is neither spoken nor added.
C15_NarrationConditions ==
    /\ [][spoken' # spoken
            => /\ NearestEffectRuns
               /\ lastEval' # Null /\ Val(lastEval').closest # Null
               /\ LET e == Val(lastEval')
                      spot == Val(e.closest)
                  IN  /\ spoken' = Append(spoken, spot.id)
                      /\ e.pixel # Null
                      /\ e.minDist = SpotDistSq(Val(e.pixel), spot, e.data.calibration_points)
                      /\ Lt(e.minDist, Sqr(Num(20)))
                      /\ spot.speech_text # ""
                      /\ spot.id \notin readSpeeches
                      /\ readSpeeches' = readSpeeches \cup {spot.id}]_vars
    /\ [][readSpeeches' # readSpeeches => spoken' # spoken]_vars
    /\ [][(NearestEffectRuns /\ Val(lastEval').closest # Null
             /\ Val(Val(lastEval').closest).speech_text = "")
            => (spoken' = spoken /\ readSpeeches' = readSpeeches)]_vars

\* An evaluation selected, within 20 metres, a spot without speech text:
\* nothing was spoken for it and it is not in the narrated set.
C15_Witness ==
    /\ Quiescent /\ lastEval # Null
    /\ Val(lastEval).closest # Null
    /\ Val(Val(lastEval).closest).speech_text = ""
    /\ Lt(Val(lastEval).minDist, Sqr(Num(AUTO_SPEECH_DISTANCE)))
    /\ ~Val(lastEval).spoke
    /\ Val(Val(lastEval).closest).id \notin readSpeeches
    /\ \A i \in 1..Len(spoken) : spoken[i] # Val(Val(lastEval).closest).id

\* The pixel position the current fix has under the current transform.
FreshPixel == latLngToPixel(Val(userGeo).lat, Val(userGeo).lng, transform)

\* The nearest-spot effect is about to compute distances.
ComputesDistances ==
    /\ NearestEffectRuns
    /\ userPixel # Null /\ transform # Null
    /\ Len(Val(data).calibration_points) >= 2
    /\ Len(Val(data).spots) > 0

\* C16: whenever the nearest-spot effect computes distances, and whenever it
\* speaks, the pixel position it reads is that of the current fix under the
\* current transform.
C16_EvaluatesFreshPixel ==
    /\ ComputesDistances => userPixel = FreshPixel
    /\ (NearestEffectRuns /\ ShouldSpeak(NearestScan(Val(data), userPixel, transform),
                                         readSpeeches))
          => userPixel = FreshPixel

----------------------------------------------------------------------------
(* Properties of the detail view *)

\* The scale of the loaded calibration is a positive finite number.
UsableScale ==
    /\ data # Null /\ transform # Null
    /\ Len(Val(data).calibration_points) >= 2
    /\ IsFinite(MetersPerPixelSq(Val(data).calibration_points))
    /\ Lt(Num(0), MetersPerPixelSq(Val(data).calibration_points))

\* The visitor's pixel position is that of the selected spot.
StandingOnSelected ==
    /\ Val(userPixel).x = Val(selectedSpot).pixel_x
    /\ Val(userPixel).y = Val(selectedSpot).pixel_y

\* C17: with a spot selected, a visitor pixel position and a usable scale,
\* the detail view is given a non-null distance, and a visitor standing
\* exactly on an open mission spot can check in.
C17_DistanceAvailable ==
    (Quiescent /\ ~loading /\ selectedSpot # Null /\ userPixel # Null /\ UsableScale)
    => /\ ModalUserDistance # Null
       /\ (StandingOnSelected /\ OpenMission)
             => CheckInEnabled(selectedSpot, ModalUserDistance, ModalIsCompleted)

\* C18: the completed-missions set only grows, and it grows only by the id
\* of the selected spot, in a step taken while that spot carries a mission
\* not yet completed and the distance given to the detail view is non-null
\* and below 30; that step closes the detail view.
C18_CheckInOnly ==
    /\ [][completedMissions \subseteq completedMissions']_vars
    /\ [][completedMissions' # completedMissions
            => /\ selectedSpot # Null
               /\ Val(selectedSpot).has_mission
               /\ Val(selectedSpot).id \notin completedMissions
               /\ ModalUserDistance # Null
               /\ Lt(Val(ModalUserDistance), Sqr(Num(CHECKIN_DISTANCE)))
               /\ completedMissions' = completedMissions \cup {Val(selectedSpot).id}
               /\ selectedSpot' = Null]_vars

\* A mission was checked in and its detail view opened again: the spot is
\* completed and no check-in button is shown.
C18_Witness ==
    /\ Quiescent /\ selectedSpot # Null
    /\ Val(selectedSpot).has_mission
    /\ Val(selectedSpot).id \in completedMissions
    /\ ~CheckInShown(selectedSpot, ModalIsCompleted)

----------------------------------------------------------------------------
(* Properties of the modes *)

\* C19: while the mode is USER no step changes the calibration points or
\* the spots, in the app's state or persisted, and none opens the new-spot
\* form; a calibration point is added only in ADMIN_CALIBRATE, the new-spot
\* form opens only in ADMIN_ADD_SPOT, the calibration is cleared only
\* outside USER, and the mode leaves USER only when the URL carries
\* mode=admin.
C19_UserModeReadOnly ==
    /\ [][mode = "USER"
            => /\ stored' = stored
               /\ data # Null => data' = data
               /\ newSpotPos' = newSpotPos]_vars
    /\ [][(data # Null /\ data' # Null
             /\ Len(Val(data').calibration_points) > Len(Val(data).calibration_points))
            => mode = "ADMIN_CALIBRATE"]_vars
    /\ [][(newSpotPos = Null /\ newSpotPos' # Null) => mode = "ADMIN_ADD_SPOT"]_vars
    /\ [][(data # Null /\ data' # Null
             /\ Len(Val(data').calibration_points) < Len(Val(data).calibration_points))
            => mode # "USER"]_vars
    /\ [](mode # "USER" => adminUrl)
    /\ [][mode' # mode => adminUrl]_vars

\* An administrator added spots and switched back to USER: what is stored
\* is what they left.
C19_Witness ==
    /\ Quiescent /\ ~loading
    /\ mode = "USER" /\ adminUrl
    /\ data = Some(stored)
    /\ Len(stored.spots) = MaxSpots
    /\ newSpotPos = Null

----------------------------------------------------------------------------
(* Properties of manual entry *)

\* The six coefficients of a transform.
Coefficients(t) == {Val(t).A, Val(t).B, Val(t).C, Val(t).D, Val(t).E, Val(t).F}

\* C20: no transform is derived from coordinates that did not parse: every
\* non-null transform has six finite coefficients and every projected pixel
\* position is finite.
C20_FiniteTransform ==
    /\ (data # Null /\ transform # Null) => \A k \in Coefficients(transform) : IsFinite(k)
    /\ userPixel # Null => (IsFinite(Val(userPixel).x) /\ IsFinite(Val(userPixel).y))

====
